---- MODULE Spec2Model ----
(***************************************************************************)
(* The page-link collector and the sitemap emitter of the documentation    *)
(* site's VitePress configuration (docs/.vitepress/config.mts).            *)
(*                                                                         *)
(* Strings whose content matters (page paths, urls, timestamps) are        *)
(* sequences of one-character strings, so that the regular-expression      *)
(* replacements, the URL resolution and the date formatting are computed.  *)
(***************************************************************************)
EXTENDS Integers, Sequences, FiniteSets, TLC

VARIABLES
    links,      \* the module-level array `links` (config.mts:7)
    pages,      \* history: the relativePath of every transformPageData call
    pc,         \* "collecting" | "emitting" | "done": position of the build
    outDir,     \* the outDir argument buildEnd was called with, in a 1-tuple
    destPath,   \* the path handed to createWriteStream, as a sequence of segments
    dirState,   \* directory of the destination: "writable" | "readonly" | "missing"
    destKind,   \* what is at <outDir>/sitemap.xml: "absent" | "file" | "dir"
    destData,   \* content of the destination file, a sequence of chunks
    wsState,    \* the fs write stream: "none" | "opening" | "open" | "finished" | "errored"
    wsBuf,      \* chunks piped to the write stream and not yet on disk
    wsEnded,    \* end() has reached the write stream (the source stream ended)
    smState,    \* the SitemapStream: "none" | "ended" | "errored"
    promise,    \* the promise buildEnd awaits: "none" | "pending" | "resolved" | "rejected"
    unhandled,  \* an 'error' event was emitted on a stream that has no listener for it
    proc,       \* the build process: "running" | "crashed"
    wsOpened,   \* the write stream has opened (and so truncated) the destination
    prevKind,   \* history: what was at the destination when the build started
    prevData,   \* history: the content of the destination when the build started
    stamps,     \* history: the lastUpdated of every transformPageData call
    buildStart, \* history: for each build run so far, Len(pages) when it started
    written     \* history: the paths of the files the hooks created or changed

vars == <<links, pages, pc, outDir, destPath, dirState, destKind, destData, wsState,
          wsBuf, wsEnded, smState, promise, unhandled, proc, wsOpened, prevKind, prevData,
          stamps, buildStart, written>>

\* ------------------------------------------------------------------ bounds

\* most records collected in one build
MaxLinks == 2

\* most builds run with one instance of the configuration module
MaxBuilds == 2

\* ----------------------------------------------------------------- strings

EndsWith(s, suf) ==
    /\ Len(s) >= Len(suf)
    /\ SubSeq(s, Len(s) - Len(suf) + 1, Len(s)) = suf

StartsWith(s, pre) ==
    /\ Len(s) >= Len(pre)
    /\ SubSeq(s, 1, Len(pre)) = pre

DropRight(s, n) == SubSeq(s, 1, Len(s) - n)

IndexMd == <<"i", "n", "d", "e", "x", ".", "m", "d">>
DotMd   == <<".", "m", "d">>
DotHtml == <<".", "h", "t", "m", "l">>
Guide   == <<"g", "u", "i", "d", "e", "/">>

\* the relativePath values the renderer passes in pageData
RelativePaths ==
    { <<>>,
      IndexMd,
      Guide \o IndexMd,
      Guide \o <<"i", "n", "t", "r", "o">> \o DotMd,
      Guide \o <<"r", "e">> \o IndexMd }

\* pageData.lastUpdated: undefined (<<>>) or a timestamp in milliseconds (<<t>>)
LastUpdatedValues == { <<>>, <<1700000000>>, <<86399999>> }

\* the url is made root-relative: a "/" is put before the path
PageUrl_LeadingSlash(relativePath) ==
    LET a == IF EndsWith(relativePath, IndexMd)
             THEN DropRight(relativePath, Len(IndexMd))
             ELSE relativePath
    IN  <<"/">> \o (IF EndsWith(a, DotMd) THEN DropRight(a, Len(DotMd)) \o DotHtml ELSE a)

\* the first replacement is left out: index.md is treated like any page
PageUrl_NoIndex(relativePath) ==
    IF EndsWith(relativePath, DotMd)
    THEN DropRight(relativePath, Len(DotMd)) \o DotHtml
    ELSE relativePath

\* relativePath.replace(/index\.md$/, '').replace(/\.md$/, '.html')
PageUrl(relativePath) ==
    LET a == IF EndsWith(relativePath, IndexMd)
             THEN DropRight(relativePath, Len(IndexMd))
             ELSE relativePath
    IN  IF EndsWith(a, DotMd) THEN DropRight(a, Len(DotMd)) \o DotHtml ELSE a

\* hostname: 'https://yourdomain.com/'
Hostname ==
    <<"h", "t", "t", "p", "s", ":", "/", "/">>
    \o <<"y", "o", "u", "r", "d", "o", "m", "a", "i", "n", ".", "c", "o", "m">>
    \o <<"/">>

\* base: '/quantum-reactor-pattern/', the path under which the site is served
Base ==
    <<"/", "q", "u", "a", "n", "t", "u", "m", "-", "r", "e", "a", "c", "t", "o",
    "r", "-", "p", "a", "t", "t", "e", "r", "n", "/">>

\* cleanUrls: true, the site's pages are served without the .html extension
CleanUrls == TRUE

\* indices of the "/" characters of s, in a set
Slashes(s) == { i \in 1..Len(s) : s[i] = "/" }

Min(S) == CHOOSE x \in S : \A y \in S : x <= y
Max(S) == CHOOSE x \in S : \A y \in S : x >= y

\* scheme://host of an absolute URL that has a path: all before its third "/"
UrlOrigin(base) ==
    LET third == Min({ i \in Slashes(base) : Cardinality({ j \in Slashes(base) : j < i }) = 2 })
    IN  SubSeq(base, 1, third - 1)

\* an absolute URL up to and including the last "/" of its path
UrlDirectory(base) == SubSeq(base, 1, Max(Slashes(base)))

\* the hostname is left out: the loc is the relative url
NormalizeURL_NoHost(url, hostname) == url

\* sitemap.write(link) makes the entry's loc with new URL(link.url, hostname):
\* a reference that begins with "/" replaces the base's path, any other
\* relative reference replaces the base's last path segment
NormalizeURL(url, hostname) ==
    IF StartsWith(url, <<"/">>)
    THEN UrlOrigin(hostname) \o url
    ELSE UrlDirectory(hostname) \o url

\* ------------------------------------------------------------------- dates

DigitChars == <<"0", "1", "2", "3", "4", "5", "6", "7", "8", "9">>

\* n in decimal, padded with zeros to w characters
RECURSIVE Pad(_, _)
Pad(n, w) ==
    IF w = 0 THEN <<>> ELSE Pad(n \div 10, w - 1) \o <<DigitChars[(n % 10) + 1]>>

\* the civil date <<year, month, day>> of a day number counted from 1970-01-01
CivilFromDays(days) ==
    LET z   == days + 719468
        era == z \div 146097
        doe == z - era * 146097
        yoe == (doe - doe \div 1460 + doe \div 36524 - doe \div 146096) \div 365
        doy == doe - (365 * yoe + yoe \div 4 - yoe \div 100)
        mp  == (5 * doy + 2) \div 153
        d   == doy - (153 * mp + 2) \div 5 + 1
        m   == IF mp < 10 THEN mp + 3 ELSE mp - 9
        y   == yoe + era * 400 + (IF m <= 2 THEN 1 ELSE 0)
    IN  <<y, m, d>>

\* the time is formatted to the second: the milliseconds are written as 000
ToISOString_Seconds(ms) ==
    LET date == CivilFromDays(ms \div 86400000)
        rest == ms % 86400000
    IN  Pad(date[1], 4) \o <<"-">> \o Pad(date[2], 2) \o <<"-">> \o Pad(date[3], 2)
        \o <<"T">> \o Pad(rest \div 3600000, 2)
        \o <<":">> \o Pad((rest \div 60000) % 60, 2)
        \o <<":">> \o Pad((rest \div 1000) % 60, 2)
        \o <<".">> \o Pad(0, 3) \o <<"Z">>

\* sitemap.write(link) formats a numeric lastmod with new Date(ms).toISOString():
\* YYYY-MM-DDTHH:mm:ss.sssZ
ToISOString(ms) ==
    LET date == CivilFromDays(ms \div 86400000)
        rest == ms % 86400000
    IN  Pad(date[1], 4) \o <<"-">> \o Pad(date[2], 2) \o <<"-">> \o Pad(date[3], 2)
        \o <<"T">> \o Pad(rest \div 3600000, 2)
        \o <<":">> \o Pad((rest \div 60000) % 60, 2)
        \o <<":">> \o Pad((rest \div 1000) % 60, 2)
        \o <<".">> \o Pad(rest % 1000, 3) \o <<"Z">>

\* ------------------------------------------------------------------ chunks

\* what the SitemapStream pushes to the file: the XML declaration with the
\* opening urlset tag, one url element per item, and the closing urlset tag
HeadChunk  == [tag |-> "urlset", loc |-> <<>>, lastmod |-> <<>>]
CloseChunk == [tag |-> "/urlset", loc |-> <<>>, lastmod |-> <<>>]

\* a missing lastmod is written as the date of timestamp 0
UrlChunk_Placeholder(link) ==
    [tag     |-> "url",
     loc     |-> NormalizeURL(link.url, Hostname),
     lastmod |-> IF link.lastmod = <<>> THEN <<ToISOString(0)>>
                 ELSE <<ToISOString(link.lastmod[1])>>]

\* the url element written for one link: loc, and lastmod when the link has one
UrlChunk(link) ==
    [tag     |-> "url",
     loc     |-> NormalizeURL(link.url, Hostname),
     lastmod |-> IF link.lastmod = <<>> THEN <<>>
                 ELSE <<ToISOString(link.lastmod[1])>>]

\* the links are written from the last to the first
UrlChunks_Reversed(ls) ==
    [i \in 1..Len(ls) |-> UrlChunk(ls[Len(ls) + 1 - i])]

\* a loop that stops one short: the last link is never written
UrlChunks_DropLast(ls) ==
    [i \in 1..(Len(ls) - 1) |-> UrlChunk(ls[i])]

\* links.forEach((link) => sitemap.write(link)): the url elements in list order
RECURSIVE UrlChunks(_)
UrlChunks(ls) ==
    IF ls = <<>> THEN <<>> ELSE <<UrlChunk(Head(ls))>> \o UrlChunks(Tail(ls))

\* the stream is ended after the first write: later writes are dropped
SitemapChunks_EndEarly(ls) ==
    <<HeadChunk>> \o UrlChunks(IF ls = <<>> THEN <<>> ELSE <<Head(ls)>>) \o <<CloseChunk>>

\* the whole document for a non-empty list: the head is pushed with the first
\* item written and the closing tag when the stream is ended
SitemapChunks(ls) == <<HeadChunk>> \o UrlChunks(ls) \o <<CloseChunk>>

\* ------------------------------------------------------------- environment

\* the outDir values buildEnd is called with: absolute paths as sequences of
\* segments, and the empty string (<<>>)
OutDirs == { <<>>, <<"site", "dist">> }

\* the working directory of the build process
Cwd == <<"site", "docs">>

\* outDir is not used: the file name is resolved against the working directory
Resolve_Cwd(dir, name) == Cwd \o <<name>>

\* resolve(outDir, 'sitemap.xml'): an empty segment is skipped, and a path
\* that is not absolute is resolved against the working directory
Resolve(dir, name) == (IF dir = <<>> THEN Cwd ELSE dir) \o <<name>>

\* a complete sitemap that an earlier build left at the destination
OldSitemap ==
    SitemapChunks(<<[url |-> <<"o", "l", "d", ".", "h", "t", "m", "l">>, lastmod |-> <<>>]>>)

\* a document with its opening and its closing urlset tag, as an XML parser accepts
WellFormed(data) ==
    /\ Len(data) >= 2
    /\ data[1] = HeadChunk
    /\ data[Len(data)] = CloseChunk
    /\ \A i \in 2..(Len(data) - 1) : data[i].tag = "url"

\* the url elements of a file's content
Entries(data) == SelectSeq(data, LAMBDA c : c.tag = "url")

\* -------------------------------------------------------------------- init

Init ==
    /\ links = <<>>
    /\ pages = <<>>
    /\ pc = "collecting"
    /\ outDir = <<>>
    /\ destPath = <<>>
    /\ dirState \in {"writable", "readonly", "missing"}
    /\ destKind \in {"absent", "file", "dir"}
    /\ dirState = "missing" => destKind = "absent"
    /\ destData = IF destKind = "file" THEN OldSitemap ELSE <<>>
    /\ wsState = "none"
    /\ wsBuf = <<>>
    /\ wsEnded = FALSE
    /\ smState = "none"
    /\ promise = "none"
    /\ unhandled = FALSE
    /\ proc = "running"
    /\ wsOpened = FALSE
    /\ prevKind = destKind
    /\ prevData = destData
    /\ stamps = <<>>
    /\ buildStart = <<0>>
    /\ written = {}

\* ----------------------------------------------------------------- actions

\* a collector that skips a page whose url is already in the list
TransformPageData_Dedup(relativePath, lastUpdated) ==
    /\ pc = "collecting"
    /\ proc = "running"
    /\ Len(links) < MaxLinks
    /\ links' = IF \E i \in DOMAIN links : links[i].url = PageUrl(relativePath)
                THEN links
                ELSE Append(links, [url |-> PageUrl(relativePath), lastmod |-> lastUpdated])
    /\ pages' = Append(pages, relativePath)
    /\ stamps' = Append(stamps, lastUpdated)
    /\ UNCHANGED <<pc, outDir, destPath, dirState, destKind, destData, wsState, wsBuf,
                   wsEnded, smState, promise, unhandled, proc, wsOpened, prevKind,
                   prevData, buildStart, written>>

\* the record is put at the front of the list (unshift instead of push)
TransformPageData_Unshift(relativePath, lastUpdated) ==
    /\ pc = "collecting"
    /\ proc = "running"
    /\ Len(links) < MaxLinks
    /\ links' = <<[url |-> PageUrl(relativePath), lastmod |-> lastUpdated]>> \o links
    /\ pages' = Append(pages, relativePath)
    /\ stamps' = Append(stamps, lastUpdated)
    /\ UNCHANGED <<pc, outDir, destPath, dirState, destKind, destData, wsState, wsBuf,
                   wsEnded, smState, promise, unhandled, proc, wsOpened, prevKind,
                   prevData, buildStart, written>>

\* two callbacks that interleave write the same slot: the record takes the
\* place of the last one instead of following it
TransformPageData_LostUpdate(relativePath, lastUpdated) ==
    /\ pc = "collecting"
    /\ proc = "running"
    /\ Len(pages) < MaxLinks
    /\ links' = IF links = <<>>
                THEN <<[url |-> PageUrl(relativePath), lastmod |-> lastUpdated]>>
                ELSE [links EXCEPT ![Len(links)] =
                         [url |-> PageUrl(relativePath), lastmod |-> lastUpdated]]
    /\ pages' = Append(pages, relativePath)
    /\ stamps' = Append(stamps, lastUpdated)
    /\ UNCHANGED <<pc, outDir, destPath, dirState, destKind, destData, wsState, wsBuf,
                   wsEnded, smState, promise, unhandled, proc, wsOpened, prevKind,
                   prevData, buildStart, written>>

\* transformPageData(pageData): links.push({url, lastmod}).
\* The renderer calls the hook while it renders pages, for any page and any
\* number of times, and has rendered every page before it calls buildEnd.
TransformPageData(relativePath, lastUpdated) ==
    /\ pc = "collecting"
    /\ proc = "running"
    /\ Len(links) < MaxLinks
    /\ links' = Append(links, [url |-> PageUrl(relativePath), lastmod |-> lastUpdated])
    /\ pages' = Append(pages, relativePath)
    /\ stamps' = Append(stamps, lastUpdated)
    /\ UNCHANGED <<pc, outDir, destPath, dirState, destKind, destData, wsState, wsBuf,
                   wsEnded, smState, promise, unhandled, proc,
                   wsOpened, prevKind,
                   prevData, buildStart, written>>

\* the emitter empties the list while it writes it (shift in a loop)
BuildEnd_Drains(dir, emptyRaises) ==
    /\ pc = "collecting"
    /\ proc = "running"
    /\ outDir = <<>> \/ outDir = <<dir>>
    /\ pc' = "emitting"
    /\ outDir' = <<dir>>
    /\ destPath' = Resolve(dir, "sitemap.xml")
    /\ wsState' = "opening"
    /\ promise' = "pending"
    /\ links' = <<>>
    /\ IF links = <<>> /\ emptyRaises
       THEN /\ smState' = "errored"
            /\ unhandled' = TRUE
            /\ wsBuf' = <<>>
            /\ wsEnded' = FALSE
       ELSE /\ smState' = "ended"
            /\ unhandled' = FALSE
            /\ wsBuf' = SitemapChunks(links)
            /\ wsEnded' = TRUE
    /\ UNCHANGED <<pages, dirState, destKind, destData, proc, wsOpened, prevKind,
                   prevData, stamps, buildStart, written>>

\* buildEnd({ outDir }) up to its await: the streams are created and piped,
\* every link is written, the sitemap stream is ended and the 'finish'
\* listener is registered; nothing has reached the file yet.
\* Ending a SitemapStream to which nothing was written either pushes an empty
\* urlset or raises an error on the stream, by the release of the sitemap
\* package that is installed (the repository pins none); the stream has no
\* 'error' listener.
\* The site's outDir is one configured value: a later build of the same
\* configuration is called with the outDir of the earlier one.
BuildEnd(dir, emptyRaises) ==
    /\ pc = "collecting"
    /\ proc = "running"
    /\ outDir = <<>> \/ outDir = <<dir>>
    /\ pc' = "emitting"
    /\ outDir' = <<dir>>
    /\ destPath' = Resolve(dir, "sitemap.xml")
    /\ wsState' = "opening"
    /\ promise' = "pending"
    /\ IF links = <<>> /\ emptyRaises
       THEN /\ smState' = "errored"
            /\ unhandled' = TRUE
            /\ wsBuf' = <<>>
            /\ wsEnded' = FALSE
       ELSE /\ smState' = "ended"
            /\ unhandled' = FALSE
            /\ wsBuf' = SitemapChunks(links)
            /\ wsEnded' = TRUE
    /\ UNCHANGED <<links, pages, dirState, destKind, destData, proc,
                   wsOpened, prevKind,
                   prevData, stamps, buildStart, written>>

\* the destination is opened for appending (flag 'a'): nothing is truncated
OpenOk_Append ==
    /\ proc = "running"
    /\ wsState = "opening"
    /\ dirState = "writable"
    /\ destKind # "dir"
    /\ wsState' = "open"
    /\ destKind' = "file"
    /\ wsOpened' = TRUE
    /\ written' = written \cup {destPath}
    /\ UNCHANGED <<links, pages, pc, outDir, destPath, dirState, destData, wsBuf,
                   wsEnded, smState, promise, unhandled, proc, prevKind,
                   prevData, stamps, buildStart>>

\* the promise is resolved by the stream's 'open' event instead of 'finish'
OpenOk_Resolves ==
    /\ proc = "running"
    /\ wsState = "opening"
    /\ dirState = "writable"
    /\ destKind # "dir"
    /\ wsState' = "open"
    /\ destKind' = "file"
    /\ destData' = <<>>
    /\ wsOpened' = TRUE
    /\ written' = written \cup {destPath}
    /\ promise' = "resolved"
    /\ UNCHANGED <<links, pages, pc, outDir, destPath, dirState, wsBuf, wsEnded, smState,
                   unhandled, proc, prevKind,
                   prevData, stamps, buildStart>>

\* createWriteStream opens the destination with flag 'w': the file is created
\* or truncated
OpenOk ==
    /\ proc = "running"
    /\ wsState = "opening"
    /\ dirState = "writable"
    /\ destKind # "dir"
    /\ wsState' = "open"
    /\ destKind' = "file"
    /\ destData' = <<>>
    /\ wsOpened' = TRUE
    /\ written' = written \cup {destPath}
    /\ UNCHANGED <<links, pages, pc, outDir, destPath, dirState, wsBuf, wsEnded, smState,
                   promise, unhandled, proc,
                   prevKind,
                   prevData, stamps, buildStart>>

\* the open fails (ENOENT, EACCES, EISDIR): the write stream emits 'error',
\* for which buildEnd registered no listener
OpenFail ==
    /\ proc = "running"
    /\ wsState = "opening"
    /\ dirState # "writable" \/ destKind = "dir"
    /\ wsState' = "errored"
    /\ unhandled' = TRUE
    /\ UNCHANGED <<links, pages, pc, outDir, destPath, dirState, destKind, destData, wsBuf,
                   wsEnded, smState, promise, proc,
                   wsOpened, prevKind,
                   prevData, stamps, buildStart, written>>

\* the write stream writes its next buffered chunk to the file
WriteChunk ==
    /\ proc = "running"
    /\ wsState = "open"
    /\ wsBuf # <<>>
    /\ destData' = Append(destData, Head(wsBuf))
    /\ wsBuf' = Tail(wsBuf)
    /\ UNCHANGED <<links, pages, pc, outDir, destPath, dirState, destKind, wsState, wsEnded,
                   smState, promise, unhandled, proc,
                   wsOpened, prevKind,
                   prevData, stamps, buildStart, written>>

\* a write fails (ENOSPC, EIO): the write stream emits 'error' and is
\* destroyed; what was written stays in the file
WriteFail ==
    /\ proc = "running"
    /\ wsState = "open"
    /\ wsBuf # <<>>
    /\ wsState' = "errored"
    /\ unhandled' = TRUE
    /\ UNCHANGED <<links, pages, pc, outDir, destPath, dirState, destKind, destData, wsBuf,
                   wsEnded, smState, promise, proc,
                   wsOpened, prevKind,
                   prevData, stamps, buildStart, written>>

\* the write stream was ended and has flushed everything: it emits 'finish',
\* whose listener resolves the promise, and buildEnd returns
Finish ==
    /\ proc = "running"
    /\ wsState = "open"
    /\ wsBuf = <<>>
    /\ wsEnded
    /\ wsState' = "finished"
    /\ promise' = "resolved"
    /\ pc' = "done"
    /\ UNCHANGED <<links, pages, outDir, destPath, dirState, destKind, destData, wsBuf,
                   wsEnded, smState, unhandled, proc,
                   wsOpened, prevKind,
                   prevData, stamps, buildStart, written>>

\* an 'error' event without a listener is thrown as an uncaught exception,
\* which ends the process
UncaughtException ==
    /\ proc = "running"
    /\ unhandled
    /\ proc' = "crashed"
    /\ UNCHANGED <<links, pages, pc, outDir, destPath, dirState, destKind, destData, wsState,
                   wsBuf, wsEnded, smState, promise, unhandled,
                   wsOpened, prevKind,
                   prevData, stamps, buildStart, written>>

\* the process is killed while the sitemap is being written
Crash ==
    /\ proc = "running"
    /\ pc = "emitting"
    /\ proc' = "crashed"
    /\ UNCHANGED <<links, pages, pc, outDir, destPath, dirState, destKind, destData, wsState,
                   wsBuf, wsEnded, smState, promise, unhandled,
                   wsOpened, prevKind,
                   prevData, stamps, buildStart, written>>

Next ==
    \/ \E p \in RelativePaths, t \in LastUpdatedValues : TransformPageData(p, t)
    \/ \E d \in OutDirs, e \in BOOLEAN : BuildEnd(d, e)
    \/ OpenOk
    \/ OpenFail
    \/ WriteChunk
    \/ WriteFail
    \/ Finish
    \/ UncaughtException
    \/ Crash

Spec == Init /\ [][Next]_vars

\* The hooks of the exported configuration are driven for another build after
\* buildEnd has returned. `links` is assigned once, when the module is
\* evaluated, and neither hook clears it; the streams are local to buildEnd,
\* so the next call makes new ones.
NextBuild ==
    /\ pc = "done"
    /\ proc = "running"
    /\ Len(buildStart) < MaxBuilds
    /\ pc' = "collecting"
    /\ wsState' = "none"
    /\ wsBuf' = <<>>
    /\ wsEnded' = FALSE
    /\ smState' = "none"
    /\ promise' = "none"
    /\ wsOpened' = FALSE
    /\ prevKind' = destKind
    /\ prevData' = destData
    /\ buildStart' = Append(buildStart, Len(pages))
    /\ UNCHANGED <<links, pages, stamps, outDir, destPath, dirState, destKind,
                   destData, unhandled, proc, written>>

NextBuilds == Next \/ NextBuild

\* builds that follow one another within one instance of the module
SpecBuilds == Init /\ [][NextBuilds]_vars

\* ------------------------------------------------------------------ claims

\* C1: when the emission has completed, the sitemap file holds exactly one url
\* entry per collected record, and entry i is the entry of record i: nothing
\* is duplicated and nothing is lost between collection and emission.
C1_EntriesMatchRecords ==
    promise = "resolved" =>
        /\ Len(Entries(destData)) = Len(links)
        /\ \A i \in DOMAIN links : Entries(destData)[i] = UrlChunk(links[i])

\* C1 witness: an emission of two different records has completed
C1_Witness ==
    /\ promise = "resolved"
    /\ Len(links) = 2
    /\ links[1] # links[2]

\* C2 as claimed: every page processed so far has exactly one record (record j
\* is the record of page pages[j]), also when the callback runs twice for a page.
C2_OneRecordPerPage ==
    \A i \in DOMAIN pages :
        Cardinality({ j \in DOMAIN links : pages[j] = pages[i] }) = 1

\* C2 amended: the collection holds exactly one record per invocation of the
\* per-page callback, in invocation order: record i is the record of call i.
C2_OneRecordPerCall ==
    /\ Len(links) = Len(pages)
    /\ \A i \in DOMAIN pages : links[i].url = PageUrl(pages[i])

\* C2 witness: the callback has run twice for the same page
C2_Witness ==
    /\ Len(pages) = 2
    /\ pages[1] = pages[2]
    /\ pages[1] # <<>>

\* C3: once the destination has been opened by the emission, a file there
\* that looks valid (well-formed) holds every entry: whatever an error or a
\* crash mid-write leaves behind lacks the closing tag and so is detectable as
\* incomplete, and a completed emission leaves a well-formed, complete file.
C3_NoValidLookingTruncation ==
    /\ wsOpened /\ WellFormed(destData) => Len(Entries(destData)) = Len(links)
    /\ promise = "resolved" => WellFormed(destData)

\* C3 witness: the process ended mid-write and left a truncated file, which
\* is not well-formed
C3_Witness ==
    /\ proc = "crashed"
    /\ wsOpened
    /\ Len(destData) >= 2
    /\ Len(Entries(destData)) < Len(links)
    /\ ~WellFormed(destData)

\* the emission has failed: the write stream reported an error (on open or
\* on a write)
EmitFailed == pc = "emitting" /\ wsState = "errored"

\* C4 as claimed: when a previous build left a good sitemap and the emission
\* fails, the previous sitemap is still in place and unchanged.
C4_PreviousSitemapKept ==
    prevKind = "file" /\ EmitFailed => destKind = "file" /\ destData = OldSitemap

\* C5 as claimed: when the destination cannot be opened (directory missing or
\* not writable, or a directory at the destination path), buildEnd ends with
\* an error surfaced to its caller and leaves no sitemap file of its own.
C5_OpenErrorSurfaced ==
    wsState = "errored" /\ ~wsOpened =>
        /\ promise = "rejected"
        /\ prevKind # "file" => destKind # "file"

\* C6 as claimed: once the write stream has reported its terminal event,
\* buildEnd's promise is settled: resolved after 'finish', rejected after 'error'.
C6_SettledOnEveryExit ==
    /\ wsState = "finished" => promise = "resolved"
    /\ wsState = "errored" => promise = "rejected"

\* C7: the promise of buildEnd is resolved only when every record has been
\* written, the sitemap stream has been ended and the file's write stream has
\* signalled 'finish' with nothing left to flush.
C7_ResolvedOnlyAfterFinish ==
    promise = "resolved" =>
        /\ wsState = "finished"
        /\ smState = "ended"
        /\ wsEnded
        /\ wsBuf = <<>>
        /\ Len(Entries(destData)) = Len(links)

\* C7 witness: the promise has resolved for a build that collected records
C7_Witness ==
    /\ promise = "resolved"
    /\ Len(links) >= 1
    /\ wsState = "finished"

\* C8 as claimed: a callback with an empty page path appends no record: the
\* list holds records only for the calls whose path was not empty.
C8_EmptyPathRejected ==
    Len(links) = Cardinality({ i \in DOMAIN pages : pages[i] # <<>> })

\* C9 as claimed: a build whose output directory is empty fails at
\* configuration validation: no record is appended and no write is started.
C9_ConfigValidatedFirst ==
    outDir = << <<>> >> =>
        /\ promise = "rejected"
        /\ links = <<>>
        /\ wsState = "none"

\* the value of a decimal numeral
RECURSIVE Numeral(_)
Numeral(s) ==
    IF s = <<>> THEN 0
    ELSE 10 * Numeral(DropRight(s, 1))
         + (CHOOSE d \in 0..9 : DigitChars[d + 1] = s[Len(s)])

\* the day number, counted from 1970-01-01, of a civil date
DaysFromCivil(year, m, d) ==
    LET y   == IF m <= 2 THEN year - 1 ELSE year
        era == y \div 400
        yoe == y - era * 400
        doy == (153 * (IF m > 2 THEN m - 3 ELSE m + 9) + 2) \div 5 + d - 1
        doe == yoe * 365 + yoe \div 4 - yoe \div 100 + doy
    IN  era * 146097 + doe - 719468

\* the milliseconds a reader of the sitemap gets from a lastmod text
\* YYYY-MM-DDTHH:mm:ss.sssZ
ParseISO(t) ==
    DaysFromCivil(Numeral(SubSeq(t, 1, 4)), Numeral(SubSeq(t, 6, 7)),
                  Numeral(SubSeq(t, 9, 10))) * 86400000
    + Numeral(SubSeq(t, 12, 13)) * 3600000
    + Numeral(SubSeq(t, 15, 16)) * 60000
    + Numeral(SubSeq(t, 18, 19)) * 1000
    + Numeral(SubSeq(t, 21, 23))

\* the shape YYYY-MM-DDTHH:mm:ss.sssZ
IsISOText(t) ==
    /\ Len(t) = 24
    /\ t[5] = "-" /\ t[8] = "-" /\ t[11] = "T" /\ t[14] = ":" /\ t[17] = ":"
    /\ t[20] = "." /\ t[24] = "Z"
    /\ \A i \in (1..23) \ {5, 8, 11, 14, 17, 20} :
           \E d \in 1..10 : DigitChars[d] = t[i]

\* the base URL and the first record of the documented scenario
ExampleBase ==
    <<"h", "t", "t", "p", "s", ":", "/", "/", "e", "x", "a", "m", "p", "l", "e",
      ".", "c", "o", "m", "/", "d", "o", "c", "s", "/">>
ExampleUrl == Guide \o <<"i", "n", "t", "r", "o">> \o DotHtml

\* C10: every entry written to the file by the emission has as loc the host
\* base URL followed by its record's url, has no lastmod when the record has
\* none, and otherwise has a lastmod text that reads back as exactly the
\* record's lastmod value; a base URL with a path gives the same concatenation.
C10_LocAndLastmod ==
    /\ wsOpened =>
         \A i \in DOMAIN Entries(destData) :
            LET e == Entries(destData)[i]
                r == links[i]
            IN  /\ e.loc = Hostname \o r.url
                /\ r.lastmod = <<>> => e.lastmod = <<>>
                /\ r.lastmod # <<>> =>
                      /\ Len(e.lastmod) = 1
                      /\ IsISOText(e.lastmod[1])
                      /\ ParseISO(e.lastmod[1]) = r.lastmod[1]
    /\ NormalizeURL(ExampleUrl, ExampleBase) = ExampleBase \o ExampleUrl

\* C10 witness: the file holds the entries of a record with a lastmod and of
\* a record without one
C10_Witness ==
    /\ promise = "resolved"
    /\ Len(links) = 2
    /\ links[1].lastmod # <<>>
    /\ links[2].lastmod = <<>>
    /\ links[1].url # <<>>
    /\ Len(Entries(destData)) = 2

\* C11: every entry in the file whose record has no lastmod (lastUpdated was
\* undefined) has no lastmod field at all: nothing is written in its place.
C11_AbsentLastmodOmitted ==
    wsOpened =>
        \A i \in DOMAIN Entries(destData) :
            links[i].lastmod = <<>> => Entries(destData)[i].lastmod = <<>>

\* C11 witness: the entry of a page rendered without lastUpdated is in the file
C11_Witness ==
    /\ wsOpened
    /\ \E i \in DOMAIN Entries(destData) : stamps[i] = <<>> /\ links[i].lastmod = <<>>

\* C12: the entries are written in the order of collection: at every moment
\* of the emission the k-th entry in the file is the entry of the k-th
\* record, so an earlier record's entry precedes a later record's entry.
C12_EntriesInCollectionOrder ==
    wsOpened =>
        /\ Len(Entries(destData)) <= Len(links)
        /\ \A k \in DOMAIN Entries(destData) :
               Entries(destData)[k] = UrlChunk(links[k])

\* C12 witness: two different entries are in the file
C12_Witness ==
    /\ wsOpened
    /\ Len(Entries(destData)) = 2
    /\ Entries(destData)[1] # Entries(destData)[2]

\* C14: no step of the emission changes the record list: from the call of
\* buildEnd to its completion (or failure) the list keeps the same records in
\* the same order.
C14_EmissionLeavesLinksUnchanged ==
    [][(pc # "collecting" \/ pc' # "collecting") => links' = links]_vars

\* C14 witness: an emission of a non-empty list has run to its end
C14_Witness ==
    /\ pc = "done"
    /\ links # <<>>
    /\ destData # <<>>

\* C15: during a build the list is append-only: a callback makes the list one
\* record longer, and any step that changes the list keeps every old record
\* at its place and adds one record at the end.
C15_AppendOnly ==
    [][/\ pages' # pages => Len(links') = Len(links) + 1
       /\ links' # links =>
            /\ Len(links') = Len(links) + 1
            /\ SubSeq(links', 1, Len(links)) = links]_vars

\* C15 witness: a second record was appended after a different first one
C15_Witness ==
    /\ pc = "collecting"
    /\ Len(links) = 2
    /\ links[1] # links[2]

\* the callbacks of the build that is running: those after its start
CallsOfBuild == Len(pages) - buildStart[Len(buildStart)]

\* C16 as claimed: the list is empty when a build starts and holds only the
\* records of the build that is running, so that a completed emission lists
\* only the pages rendered in its own build.
C16_FreshPerBuild ==
    /\ Len(links) = CallsOfBuild
    /\ promise = "resolved" => Len(Entries(destData)) = CallsOfBuild

\* C17 as claimed: buildEnd with no collected record ends the sitemap stream
\* without an error, and when the write stream has finished the promise is
\* resolved and the file is a well-formed urlset with no url entry.
C17_EmptyListSucceeds ==
    links = <<>> /\ pc # "collecting" =>
        /\ smState = "ended"
        /\ wsEnded
        /\ wsState = "finished" =>
              /\ promise = "resolved"
              /\ WellFormed(destData)
              /\ Entries(destData) = <<>>

\* C18: when the emission is run again with the same record list and the
\* same output path, the file it leaves is equal to the file the first run
\* left: nothing is appended to it and the order of entries is the same.
C18_SecondRunSameOutput ==
    /\ Len(buildStart) >= 2
    /\ promise = "resolved"
    /\ CallsOfBuild = 0
    => destData = prevData

\* C18 witness: a second emission of the same non-empty list has completed
C18_Witness ==
    /\ Len(buildStart) = 2
    /\ promise = "resolved"
    /\ CallsOfBuild = 0
    /\ links # <<>>
    /\ WellFormed(prevData)

\* the elements of a sequence
Range(q) == { q[i] : i \in DOMAIN q }

\* what a reader of the sitemap gets: for each url element the loc and the
\* lastmod as a timestamp, or no lastmod
ReadBack(data) ==
    { <<e.loc, IF e.lastmod = <<>> THEN <<>> ELSE <<ParseISO(e.lastmod[1])>>>> :
        e \in Range(Entries(data)) }

\* what the emitter was given: for each record the absolute URL and the lastmod
FedIn == { <<Hostname \o r.url, r.lastmod>> : r \in Range(links) }

\* C19: the entries read back from an emitted sitemap are exactly the
\* (absolute URL, lastmod) pairs of the records, an absent lastmod read back
\* as absent.
C19_RoundTrip == promise = "resolved" => ReadBack(destData) = FedIn

\* C19 witness: a sitemap was emitted for two pages, one with a lastmod that
\* has milliseconds and one without a lastmod
C19_Witness ==
    /\ promise = "resolved"
    /\ Cardinality(FedIn) = 2
    /\ \E r \in Range(links) : r.lastmod = <<86399999>>
    /\ \E r \in Range(links) : r.lastmod = <<>>

\* the file name of a path: what follows its last "/"
LastSegment(path) ==
    IF Slashes(path) = {} THEN path
    ELSE SubSeq(path, Max(Slashes(path)) + 1, Len(path))

\* the url the claim describes: the path without its file name when the file
\* name is index.md, otherwise with .md replaced by .html
ExpectedUrl(path) ==
    IF LastSegment(path) = IndexMd THEN DropRight(path, Len(IndexMd))
    ELSE IF EndsWith(path, DotMd) THEN DropRight(path, Len(DotMd)) \o DotHtml
    ELSE path

\* C20 as claimed: the record of every page has as url the page's path with
\* a trailing index file name elided and otherwise .md replaced by .html, and
\* as lastmod the page's lastUpdated.
C20_UrlOfPage ==
    \A i \in DOMAIN links :
        /\ links[i].url = ExpectedUrl(pages[i])
        /\ links[i].lastmod = stamps[i]

\* a relative path: it does not begin with "/" and has no scheme (no ":"
\* before its first "/")
IsRelativeUrl(u) ==
    /\ ~StartsWith(u, <<"/">>)
    /\ \A i \in 1..Len(u) : u[i] = ":" => \E j \in 1..(i - 1) : u[j] = "/"

\* C21: in every reachable state the url of every record in the list is a
\* relative path: it begins neither with "/" nor with a scheme or host.
C21_UrlIsRelative ==
    \A i \in DOMAIN links : IsRelativeUrl(links[i].url)

\* C21 witness: the list holds the record of a page in a directory
C21_Witness ==
    \E i \in DOMAIN links :
        /\ Slashes(pages[i]) # {}
        /\ Slashes(links[i].url) # {}

\* C24 as claimed: a page whose file name is not index.md keeps its whole
\* file stem in the url and only has .md replaced by .html.
C24_ElisionOnlyForIndexFile ==
    \A i \in DOMAIN links :
        LastSegment(pages[i]) # IndexMd /\ EndsWith(pages[i], DotMd) =>
            links[i].url = DropRight(pages[i], Len(DotMd)) \o DotHtml

\* C25 as claimed: every page with a non-empty path has a non-empty url, and
\* its entry's loc is longer than the host base URL.
C25_UrlNeverEmpty ==
    /\ \A i \in DOMAIN links : pages[i] # <<>> => links[i].url # <<>>
    /\ wsOpened =>
         \A k \in DOMAIN Entries(destData) :
            pages[k] # <<>> => Len(Entries(destData)[k].loc) > Len(Hostname)

\* C25 amended: every page with a non-empty path other than the root page
\* index.md has a non-empty url and a loc longer than the host base URL; the
\* root page index.md has the empty url and its loc is the host base URL.
C25_UrlEmptyOnlyForRoot ==
    /\ \A i \in DOMAIN links :
          /\ pages[i] \notin {<<>>, IndexMd} => links[i].url # <<>>
          /\ pages[i] = IndexMd => links[i].url = <<>>
    /\ wsOpened =>
         \A k \in DOMAIN Entries(destData) :
            /\ pages[k] \notin {<<>>, IndexMd} =>
                  Len(Entries(destData)[k].loc) > Len(Hostname)
            /\ pages[k] = IndexMd => Entries(destData)[k].loc = Hostname

\* C25 witness: the entries of the root page and of another page are in the file
C25_Witness ==
    /\ wsOpened
    /\ Len(Entries(destData)) = 2
    /\ pages[1] = IndexMd
    /\ pages[2] \notin {<<>>, IndexMd}

\* C22: the hooks create or change at most one file, named sitemap.xml and
\* lying directly in the output directory buildEnd was given, and a build
\* that has completed has written exactly that one file.
C22_OnlySitemapWritten ==
    /\ Cardinality(written) <= 1
    /\ \A w \in written :
          /\ w[Len(w)] = "sitemap.xml"
          /\ outDir[1] # <<>> => DropRight(w, 1) = outDir[1]
    /\ pc = "done" => Cardinality(written) = 1

\* C22 witness: a build with a configured output directory has completed
C22_Witness ==
    /\ pc = "done"
    /\ outDir = << <<"site", "dist">> >>
    /\ written = { <<"site", "dist", "sitemap.xml">> }

\* the entries of the callbacks made, as a set: it does not depend on the
\* order of the callbacks
CallEntries ==
    { UrlChunk([url |-> PageUrl(pages[i]), lastmod |-> stamps[i]]) : i \in DOMAIN pages }

\* C23: the set of entries of an emitted sitemap is determined by the set of
\* callbacks made, whatever their order, and there is one entry per callback:
\* two orders of the same callbacks give the same set and lose no record.
C23_EntriesIndependentOfOrder ==
    promise = "resolved" =>
        /\ Range(Entries(destData)) = CallEntries
        /\ Len(Entries(destData)) = Len(pages)

\* C23 witness: a sitemap was emitted after callbacks for two different pages
C23_Witness ==
    /\ promise = "resolved"
    /\ Len(pages) = 2
    /\ pages[1] # pages[2]
    /\ Cardinality(CallEntries) = 2

\* the path under which the site serves a page: index.md is served as its
\* directory, any other page without .md, and with .html unless cleanUrls is set
ServedPath(path) ==
    LET stem == IF EndsWith(path, DotMd) THEN DropRight(path, Len(DotMd)) ELSE path
    IN  IF LastSegment(path) = IndexMd THEN DropRight(path, Len(IndexMd))
        ELSE IF CleanUrls THEN stem
        ELSE stem \o DotHtml

\* the URL at which the site serves a page: the host, the base, the served path
ServedUrl(path) == UrlOrigin(Hostname) \o Base \o ServedPath(path)

\* C26 as claimed: the loc of every entry is the URL at which the site serves
\* the entry's page, below the configured base and in the cleanUrls form.
C26_LocIsServedUrl ==
    wsOpened =>
        \A k \in DOMAIN Entries(destData) :
            pages[k] # <<>> => Entries(destData)[k].loc = ServedUrl(pages[k])

====
